---------------------------- MODULE Spec2Model ----------------------------
(***************************************************************************)
(* The chat relay of server.js: the Socket.IO handlers (join,              *)
(* send-message, typing, disconnect), the presence map activeUsers, the    *)
(* in-memory message buffer memoryMessages, the optional MongoDB store     *)
(* and the two read-only HTTP queries.  Of public/app.js the limit of      *)
(* joinChat on the length of a name is used, and the set typingUsers that  *)
(* the page derives from the events it receives is followed in             *)
(* PresenceSpec; the server is modelled with whatever a client may send,   *)
(* not only what the page sends.                                           *)
(*                                                                         *)
(* Strings are sequences of one-character strings, so that trim() and      *)
(* length are computed.  A value received from a client is a tagged        *)
(* record (undefined, number, string, object): the handlers are written    *)
(* in JavaScript and take whatever the client sends.                       *)
(***************************************************************************)
EXTENDS Integers, Sequences, FiniteSets, TLC

VARIABLES
    isDbConnected,   \* server.js: let isDbConnected
    dbPhase,         \* connectDB(): "connecting" until mongoose.connect settles
    dbMessages,      \* the documents of the Message collection, in insertion order
    memoryMessages,  \* server.js: let memoryMessages
    activeUsers,     \* server.js: let activeUsers (a Map, kept in insertion order)
    conn,            \* each socket: "idle", "connected" or "disconnected"
    username,        \* socket.username of each socket
    pendingSaves,    \* the send-message handlers suspended on await dbMessage.save()
    now,             \* the last value new Date() returned
    crashed,         \* the process has ended on an uncaught exception
    emitted,         \* the events the last step emitted, in order
    response,        \* the body the last step passed to res.json, or NoResponse
    lastOp,          \* the handler the last step ran, and its argument
    pushed,          \* history: every message pushed to memoryMessages, in order
    joins,           \* history: the number of joins accepted so far
    delivered,       \* history: the indices in pushed of the messages broadcast
                     \* as new-message, in the order of the broadcasts
    typingUsers      \* app.js: this.typingUsers of the page behind each socket

vars == <<isDbConnected, dbPhase, dbMessages, memoryMessages, activeUsers, conn,
          username, pendingSaves, now, crashed, emitted, response, lastOp, pushed,
          joins, delivered, typingUsers>>

-----------------------------------------------------------------------------
(* Bounds of the model *)

\* New Date() is read at most this late in Spec.
MaxTime == 1
\* Validated sends in Spec.
MaxSends == 2
\* Accepted joins in Spec.
MaxJoins == 2
\* Accepted joins in PresenceSpec.
MaxJoinsPresence == 3
\* Validated sends in PresenceSpec.
MaxSendsPresence == 1
\* Validated sends in LongSpec: enough to overflow the buffer by half.
MaxSendsLong == 150
\* In LongSpec new Date() may return the same millisecond twice only among
\* the first TieWindow sends; later sends are at least 1 ms apart.
TieWindow == 2

(* Program constants *)

\* memoryMessages.length > 100, slice(-100)
BufferCap == 100
\* .limit(50), slice(-50)
QueryLimit == 50
\* username.length > 20 in joinChat
MaxNameLen == 20

Sockets == {1, 2}

-----------------------------------------------------------------------------
(* JavaScript values *)

Undefined == [type |-> "undefined"]
Num(n) == [type |-> "number", num |-> n]
Str(s) == [type |-> "string", str |-> s]
\* The payload of send-message: { message }
MsgObj(m) == [type |-> "object", message |-> m]
\* The payload of typing: { isTyping }
TypObj(b) == [type |-> "object", isTyping |-> b]

\* !v
Falsy(v) ==
    \/ v.type = "undefined"
    \/ v.type = "number" /\ v.num = 0
    \/ v.type = "string" /\ v.str = <<>>

Whitespace == {" ", "\t"}

RECURSIVE TrimStart(_)
TrimStart(s) ==
    IF s # <<>> /\ Head(s) \in Whitespace THEN TrimStart(Tail(s)) ELSE s

RECURSIVE TrimEnd(_)
TrimEnd(s) ==
    IF s # <<>> /\ s[Len(s)] \in Whitespace
    THEN TrimEnd(SubSeq(s, 1, Len(s) - 1))
    ELSE s

\* String.prototype.trim
Trim(s) == TrimEnd(TrimStart(s))

\* Array.prototype.slice(-n)
SliceLast(s, n) == IF Len(s) <= n THEN s ELSE SubSeq(s, Len(s) - n + 1, Len(s))

\* Mutant of Reverse: the result of the query is left as sorted
ReverseOmitted(s) == s

\* Array.prototype.reverse
Reverse(s) == [i \in 1..Len(s) |-> s[Len(s) + 1 - i]]

RemoveAt(s, i) == SubSeq(s, 1, i - 1) \o SubSeq(s, i + 1, Len(s))

-----------------------------------------------------------------------------
(* activeUsers: a Map username -> { id, joinedAt }, iterated in insertion order *)

\* Array.from(activeUsers.keys())
MapKeys(m) == [i \in 1..Len(m) |-> m[i].username]

MapHas(m, k) == \E i \in 1..Len(m) : m[i].username = k

\* Mutant of MapSet: a present key keeps its value, the first writer wins
MapSetKeepFirst(m, k, id, t) ==
    IF MapHas(m, k) THEN m
    ELSE Append(m, [username |-> k, id |-> id, joinedAt |-> t])

\* Mutant of MapSet: a new key is put in front
MapSetFront(m, k, id, t) ==
    LET e == [username |-> k, id |-> id, joinedAt |-> t]
    IN  IF MapHas(m, k)
        THEN [i \in 1..Len(m) |-> IF m[i].username = k THEN e ELSE m[i]]
        ELSE <<e>> \o m

\* Mutant of MapSet: an array that every join is pushed to
MapSetAppend(m, k, id, t) == Append(m, [username |-> k, id |-> id, joinedAt |-> t])

\* Map.prototype.set: a present key keeps its place and takes the new value
MapSet(m, k, id, t) ==
    LET e == [username |-> k, id |-> id, joinedAt |-> t]
    IN  IF MapHas(m, k)
        THEN [i \in 1..Len(m) |-> IF m[i].username = k THEN e ELSE m[i]]
        ELSE Append(m, e)

\* Mutant of MapDelete: nothing is deleted
MapDeleteNothing(m, k) == m

\* Map.prototype.delete
MapDelete(m, k) == SelectSeq(m, LAMBDA e : e.username # k)

-----------------------------------------------------------------------------
(* Events *)

Event(ev, to, payload) == [ev |-> ev, to |-> to, payload |-> payload]

\* The sockets of the namespace: what io.emit reaches
Live(cn) == {c \in Sockets : cn[c] = "connected"}

\* io.emit(ev, payload)
IoEmit(cn, ev, payload) == Event(ev, Live(cn), payload)

\* socket.broadcast.emit(ev, payload)
BroadcastEmit(cn, c, ev, payload) == Event(ev, Live(cn) \ {c}, payload)

\* socket.emit(ev, payload)
SocketEmit(c, ev, payload) == Event(ev, {c}, payload)

NoResponse == [kind |-> "none"]

Op(op, c, arg) == [op |-> op, socket |-> c, arg |-> arg]

-----------------------------------------------------------------------------
Init ==
    /\ isDbConnected = FALSE
    /\ dbPhase = "connecting"
    /\ dbMessages = <<>>
    /\ memoryMessages = <<>>
    /\ activeUsers = <<>>
    /\ conn = [c \in Sockets |-> "idle"]
    /\ username = [c \in Sockets |-> Undefined]
    /\ pendingSaves = <<>>
    /\ now = 0
    /\ crashed = FALSE
    /\ emitted = <<>>
    /\ response = NoResponse
    /\ lastOp = Op("init", 0, Undefined)
    /\ pushed = <<>>
    /\ joins = 0
    /\ delivered = <<>>
    /\ typingUsers = [c \in Sockets |-> {}]

\* connectDB: mongoose.connect resolves (ok) or rejects
connectDB(ok) ==
    /\ ~crashed
    /\ dbPhase = "connecting"
    /\ dbPhase' = "done"
    /\ isDbConnected' = ok
    /\ emitted' = <<>>
    /\ response' = NoResponse
    /\ lastOp' = Op("connectDB", 0, Undefined)
    /\ UNCHANGED <<dbMessages, memoryMessages, activeUsers, conn, username,
                   pendingSaves, now, crashed, pushed, joins, delivered>>

\* io.on('connection'): a client opens socket c
Connection(c) ==
    /\ ~crashed
    /\ conn[c] = "idle"
    /\ conn' = [conn EXCEPT ![c] = "connected"]
    /\ emitted' = <<>>
    /\ response' = NoResponse
    /\ lastOp' = Op("connection", c, Undefined)
    /\ UNCHANGED <<isDbConnected, dbPhase, dbMessages, memoryMessages, activeUsers,
                   username, pendingSaves, now, crashed, pushed, joins, delivered>>


\* A handler threw and nothing caught it: the process ends
Throw ==
    /\ crashed' = TRUE
    /\ emitted' = <<>>
    /\ UNCHANGED <<isDbConnected, dbPhase, dbMessages, memoryMessages, activeUsers,
                   conn, username, pendingSaves, now, pushed, joins, delivered>>

\* Mutant of Reject: the error goes to everyone
RejectToAll(c, reason) ==
    /\ emitted' = <<IoEmit(conn, "error", reason)>>
    /\ UNCHANGED <<isDbConnected, dbPhase, dbMessages, memoryMessages, activeUsers,
                   conn, username, pendingSaves, now, crashed, pushed, joins, delivered>>

\* socket.emit('error', reason); return
Reject(c, reason) ==
    /\ emitted' = <<SocketEmit(c, "error", reason)>>
    /\ UNCHANGED <<isDbConnected, dbPhase, dbMessages, memoryMessages, activeUsers,
                   conn, username, pendingSaves, now, crashed, pushed, joins, delivered>>

\* Mutant of IsBlank: the name is compared without trimming
IsBlankUntrimmed(s) == s = <<>>

\* username.trim() === ''
IsBlank(s) == Trim(s) = <<>>

\* username.trim()
JoinName(name) == Trim(name.str)

\* Mutant of JoinEvents: the roster is sent before the notification
JoinEventsSwapped(cn, c, name, users, t) ==
    << IoEmit(cn, "users-update", MapKeys(users)),
       BroadcastEmit(cn, c, "user-joined", [username |-> name, timestamp |-> t]) >>

\* The events of an accepted join, in the order the handler emits them
JoinEvents(cn, c, name, users, t) ==
    << BroadcastEmit(cn, c, "user-joined", [username |-> name, timestamp |-> t]),
       IoEmit(cn, "users-update", MapKeys(users)) >>

\* socket.on('join'), past the validation
JoinAccepted(c, name, t) ==
    LET nm == JoinName(name)
        users == MapSet(activeUsers, nm, c, t)
    IN  /\ username' = [username EXCEPT ![c] = Str(nm)]
        /\ activeUsers' = users
        /\ now' = t
        /\ emitted' = JoinEvents(conn, c, nm, users, t)
        /\ joins' = joins + 1
        /\ UNCHANGED <<isDbConnected, dbPhase, dbMessages, memoryMessages, conn,
                       pendingSaves, crashed, pushed, delivered>>

\* socket.on('join', (username) => ...): socket c sends join with payload name;
\* t is what new Date() returns
Join(c, name, t) ==
    /\ ~crashed
    /\ conn[c] = "connected"
    /\ lastOp' = Op("join", c, name)
    /\ response' = NoResponse
    /\ IF Falsy(name) THEN Reject(c, "Username is required")
       ELSE IF name.type # "string" THEN Throw
       ELSE IF IsBlank(name.str) THEN Reject(c, "Username is required")
       ELSE JoinAccepted(c, name, t)

\* Mutant of PushMessage: slice(0, 100), the first 100 are kept
PushMessageKeepFirst(buf, msg) ==
    IF Len(buf) + 1 > BufferCap THEN SubSeq(Append(buf, msg), 1, BufferCap)
    ELSE Append(buf, msg)

\* memoryMessages.push(messageData), then the cut to the last 100
PushMessage(buf, msg) == SliceLast(Append(buf, msg), BufferCap)

\* Mutant of MessageData: the body is not trimmed
MessageDataUntrimmed(c, data, t) ==
    [username |-> username[c].str, message |-> data.message.str, timestamp |-> t]

\* The messageData of a send: { username, message, timestamp }
MessageData(c, data, t) ==
    [username |-> username[c].str, message |-> Trim(data.message.str), timestamp |-> t]

\* Mutant of NewMessageEvent: the message goes to the others only
NewMessageToOthers(cn, c, msg) == BroadcastEmit(cn, c, "new-message", msg)

\* io.emit('new-message', messageData), in the handler of socket c
NewMessageEvent(cn, c, msg) == IoEmit(cn, "new-message", msg)

\* socket.on('send-message'), past the two validations: the push, then either
\* the await of save() (the handler is suspended) or the broadcast at once
SendAccepted(c, msg) ==
    /\ memoryMessages' = PushMessage(memoryMessages, msg)
    /\ pushed' = Append(pushed, msg)
    /\ IF isDbConnected
       THEN /\ pendingSaves' = Append(pendingSaves,
                                 [socket |-> c, msg |-> msg, seq |-> Len(pushed')])
            /\ emitted' = <<>>
            /\ delivered' = delivered
       ELSE /\ pendingSaves' = pendingSaves
            /\ emitted' = <<NewMessageEvent(conn, c, msg)>>
            /\ delivered' = Append(delivered, Len(pushed'))
    /\ UNCHANGED <<isDbConnected, dbPhase, dbMessages, activeUsers, conn, username,
                   crashed, joins>>

\* socket.on('send-message', async (data) => ...): socket c sends send-message with
\* payload data; t is what new Date() returns; an exception thrown in the async
\* handler is an unhandled rejection, which ends the process or not (fatal)
\* according to the version of Node
SendMessage(c, data, t, fatal) ==
    /\ ~crashed
    /\ conn[c] = "connected"
    /\ lastOp' = Op("send-message", c, data)
    /\ response' = NoResponse
    /\ IF Falsy(username[c]) THEN Reject(c, "You must join first")
       ELSE IF data.type # "object" \/ data.message.type # "string"
       THEN /\ crashed' = fatal
            /\ emitted' = <<>>
            /\ UNCHANGED <<isDbConnected, dbPhase, dbMessages, memoryMessages,
                           activeUsers, conn, username, pendingSaves, now, pushed, joins, delivered>>
       ELSE /\ now' = t
            /\ IF MessageData(c, data, t).message = <<>>
               THEN /\ emitted' = <<>>
                    /\ UNCHANGED <<isDbConnected, dbPhase, dbMessages, memoryMessages,
                                   activeUsers, conn, username, pendingSaves, crashed,
                                   pushed, joins, delivered>>
               ELSE SendAccepted(c, MessageData(c, data, t))

\* Mutant of SaveDone: no try/catch around save(), a rejection ends the handler
SaveDoneUncaught(i, ok) ==
    /\ ~crashed
    /\ i \in 1..Len(pendingSaves)
    /\ dbMessages' = IF ok THEN Append(dbMessages, pendingSaves[i].msg) ELSE dbMessages
    /\ pendingSaves' = RemoveAt(pendingSaves, i)
    /\ emitted' = IF ok
                  THEN <<IoEmit(conn, "new-message", pendingSaves[i].msg)>>
                  ELSE <<>>
    /\ delivered' = IF ok THEN Append(delivered, pendingSaves[i].seq) ELSE delivered
    /\ response' = NoResponse
    /\ lastOp' = Op("save-done", pendingSaves[i].socket, Undefined)
    /\ UNCHANGED <<isDbConnected, dbPhase, memoryMessages, activeUsers, conn, username,
                   now, crashed, pushed, joins>>

\* The rest of the send-message handler once save() has settled: the document
\* is stored (ok) or the rejection is caught and logged; then the broadcast
SaveDone(i, ok) ==
    /\ ~crashed
    /\ i \in 1..Len(pendingSaves)
    /\ dbMessages' = IF ok THEN Append(dbMessages, pendingSaves[i].msg) ELSE dbMessages
    /\ pendingSaves' = RemoveAt(pendingSaves, i)
    /\ emitted' = <<NewMessageEvent(conn, pendingSaves[i].socket, pendingSaves[i].msg)>>
    /\ delivered' = Append(delivered, pendingSaves[i].seq)
    /\ response' = NoResponse
    /\ lastOp' = Op("save-done", pendingSaves[i].socket, Undefined)
    /\ UNCHANGED <<isDbConnected, dbPhase, memoryMessages, activeUsers, conn, username,
                   now, crashed, pushed, joins>>

\* Mutant of Typing: io.emit in place of socket.broadcast.emit
TypingToAll(c, data) ==
    /\ ~crashed
    /\ conn[c] = "connected"
    /\ lastOp' = Op("typing", c, data)
    /\ response' = NoResponse
    /\ IF Falsy(username[c])
       THEN /\ emitted' = <<>>
            /\ UNCHANGED <<isDbConnected, dbPhase, dbMessages, memoryMessages,
                           activeUsers, conn, username, pendingSaves, now, crashed,
                           pushed, joins, delivered>>
       ELSE IF data.type # "object" THEN Throw
       ELSE /\ emitted' = <<IoEmit(conn, "user-typing",
                               [username |-> username[c].str, isTyping |-> data.isTyping])>>
            /\ UNCHANGED <<isDbConnected, dbPhase, dbMessages, memoryMessages,
                           activeUsers, conn, username, pendingSaves, now, crashed,
                           pushed, joins, delivered>>

\* socket.on('typing', (data) => ...)
Typing(c, data) ==
    /\ ~crashed
    /\ conn[c] = "connected"
    /\ lastOp' = Op("typing", c, data)
    /\ response' = NoResponse
    /\ IF Falsy(username[c])
       THEN /\ emitted' = <<>>
            /\ UNCHANGED <<isDbConnected, dbPhase, dbMessages, memoryMessages,
                           activeUsers, conn, username, pendingSaves, now, crashed,
                           pushed, joins, delivered>>
       ELSE IF data.type # "object" THEN Throw
       ELSE /\ emitted' = <<BroadcastEmit(conn, c, "user-typing",
                               [username |-> username[c].str, isTyping |-> data.isTyping])>>
            /\ UNCHANGED <<isDbConnected, dbPhase, dbMessages, memoryMessages,
                           activeUsers, conn, username, pendingSaves, now, crashed,
                           pushed, joins, delivered>>

\* Mutant of Disconnect: no test of socket.username, every disconnect is announced
DisconnectUnguarded(c, t) ==
    /\ ~crashed
    /\ conn[c] = "connected"
    /\ conn' = [conn EXCEPT ![c] = "disconnected"]
    /\ lastOp' = Op("disconnect", c, Undefined)
    /\ response' = NoResponse
    /\ activeUsers' = IF Falsy(username[c]) THEN activeUsers
                      ELSE MapDelete(activeUsers, username[c].str)
    /\ now' = t
    /\ emitted' =
         << BroadcastEmit(conn', c, "user-left",
                          [username |-> username[c], timestamp |-> t]),
            IoEmit(conn', "users-update", MapKeys(activeUsers')) >>
    /\ UNCHANGED <<isDbConnected, dbPhase, dbMessages, memoryMessages, username,
                   pendingSaves, crashed, pushed, joins, delivered>>

\* socket.on('disconnect'): the socket has left the namespace when the handler runs
Disconnect(c, t) ==
    /\ ~crashed
    /\ conn[c] = "connected"
    /\ conn' = [conn EXCEPT ![c] = "disconnected"]
    /\ lastOp' = Op("disconnect", c, Undefined)
    /\ response' = NoResponse
    /\ IF Falsy(username[c])
       THEN /\ emitted' = <<>>
            /\ UNCHANGED <<activeUsers, now>>
       ELSE /\ activeUsers' = MapDelete(activeUsers, username[c].str)
            /\ now' = t
            /\ emitted' =
                 << BroadcastEmit(conn', c, "user-left",
                                  [username |-> username[c].str, timestamp |-> t]),
                    IoEmit(conn', "users-update", MapKeys(activeUsers')) >>
    /\ UNCHANGED <<isDbConnected, dbPhase, dbMessages, memoryMessages, username,
                   pendingSaves, crashed, pushed, joins, delivered>>

-----------------------------------------------------------------------------
(* The HTTP queries *)

\* The latest timestamp among the documents idx, none of which is later than hi
RECURSIVE MaxTimestamp(_, _, _)
MaxTimestamp(docs, idx, hi) ==
    IF \E i \in idx : docs[i].timestamp = hi THEN hi
    ELSE MaxTimestamp(docs, idx, hi - 1)

\* Message.find().sort({ timestamp: -1 }).limit(k): every sequence the query may
\* return; MongoDB leaves the order of documents of equal timestamp open
RECURSIVE SortDescLimit(_, _, _, _)
SortDescLimit(docs, idx, k, hi) ==
    IF k = 0 \/ idx = {} THEN {<<>>}
    ELSE LET mx == MaxTimestamp(docs, idx, hi)
             tops == {i \in idx : docs[i].timestamp = mx}
         IN  UNION {{<<docs[i]>> \o r : r \in SortDescLimit(docs, idx \ {i}, k - 1, mx)} :
                    i \in tops}

\* Mutant of RecentFromMemory: slice(0, 50), the oldest 50
RecentFromMemoryOldest(buf) ==
    IF Len(buf) <= QueryLimit THEN buf ELSE SubSeq(buf, 1, QueryLimit)

\* memoryMessages.slice(-50)
RecentFromMemory(buf) == SliceLast(buf, QueryLimit)

\* messages.reverse() of every result the query may return
RecentFromDb(docs) ==
    {Reverse(r) : r \in SortDescLimit(docs, DOMAIN docs, QueryLimit, now)}

\* Mutant of GetMessages: a failed query marks the store as unavailable
GetMessagesMarksDown(queryOk) ==
    /\ ~crashed
    /\ IF isDbConnected
       THEN IF queryOk
            THEN \E r \in RecentFromDb(dbMessages) :
                    response' = [kind |-> "messages", messages |-> r,
                                 source |-> "database"]
            ELSE response' = [kind |-> "messages",
                              messages |-> RecentFromMemory(memoryMessages),
                              source |-> "memory-fallback"]
       ELSE response' = [kind |-> "messages",
                         messages |-> RecentFromMemory(memoryMessages),
                         source |-> "memory"]
    /\ isDbConnected' = (isDbConnected /\ queryOk)
    /\ emitted' = <<>>
    /\ lastOp' = Op("get-messages", 0, Undefined)
    /\ UNCHANGED <<dbPhase, dbMessages, memoryMessages, activeUsers,
                   conn, username, pendingSaves, now, crashed, pushed, joins, delivered>>

\* app.get('/api/messages'): queryOk tells whether Message.find resolves
GetMessages(queryOk) ==
    /\ ~crashed
    /\ IF isDbConnected
       THEN IF queryOk
            THEN \E r \in RecentFromDb(dbMessages) :
                    response' = [kind |-> "messages", messages |-> r,
                                 source |-> "database"]
            ELSE response' = [kind |-> "messages",
                              messages |-> RecentFromMemory(memoryMessages),
                              source |-> "memory-fallback"]
       ELSE response' = [kind |-> "messages",
                         messages |-> RecentFromMemory(memoryMessages),
                         source |-> "memory"]
    /\ emitted' = <<>>
    /\ lastOp' = Op("get-messages", 0, Undefined)
    /\ UNCHANGED <<isDbConnected, dbPhase, dbMessages, memoryMessages, activeUsers,
                   conn, username, pendingSaves, now, crashed, pushed, joins, delivered>>

\* app.get('/api/users')
GetUsers ==
    /\ ~crashed
    /\ response' = [kind |-> "users",
                    users |-> [i \in 1..Len(activeUsers) |->
                                 [username |-> activeUsers[i].username,
                                  joinedAt |-> activeUsers[i].joinedAt]]]
    /\ emitted' = <<>>
    /\ lastOp' = Op("get-users", 0, Undefined)
    /\ UNCHANGED <<isDbConnected, dbPhase, dbMessages, memoryMessages, activeUsers,
                   conn, username, pendingSaves, now, crashed, pushed, joins, delivered>>

-----------------------------------------------------------------------------
(* The page public/app.js, as far as its set typingUsers goes *)

\* handleUserTyping(data): the name is added on isTyping, deleted otherwise
handleUserTyping(tu, data) ==
    IF data.isTyping THEN tu \cup {data.username} ELSE tu \ {data.username}

\* setupSocketListeners: of the events the page listens to only user-typing
\* touches typingUsers; user-left, user-joined, users-update, new-message and
\* error leave it as it is.  e is an emitted event, b the socket of the page
Listener(tu, e, b) ==
    IF b \in e.to /\ e.ev = "user-typing" THEN handleUserTyping(tu, e.payload)
    ELSE tu

\* typingUsers of the page behind socket b after the events es, in their order
RECURSIVE Received(_, _, _)
Received(tu, es, b) ==
    IF es = <<>> THEN tu
    ELSE Received(Listener(tu, Head(es), b), Tail(es), b)

\* Every client is the page: each handles the events the step sent to it
Pages == typingUsers' = [b \in Sockets |-> Received(typingUsers[b], emitted', b)]

\* The clients are plain socket clients, which keep no typing set
NoPage == UNCHANGED typingUsers

-----------------------------------------------------------------------------
(* What the clients send *)

\* A name of 21 characters
LongName == [i \in 1..(MaxNameLen + 1) |-> "x"]

JoinPayloads ==
    { Undefined, Num(5), Str(<<>>), Str(<<" ", " ">>),
      Str(<<" ", "a", " ">>), Str(<<"b">>), Str(LongName) }

SendPayloads ==
    { Undefined, MsgObj(Undefined), MsgObj(Str(<<>>)), MsgObj(Str(<<" ", "\t">>)),
      MsgObj(Str(<<" ", "h", "i", " ">>)) }

TypingPayloads == { Undefined, TypObj(TRUE), TypObj(FALSE) }

\* new Date() never runs backwards; it may return the same millisecond again
Times == {t \in now..(now + 1) : t <= MaxTime}

Next ==
    \/ \E ok \in BOOLEAN : connectDB(ok) /\ NoPage
    \/ \E c \in Sockets : Connection(c) /\ NoPage
    \/ \E c \in Sockets, name \in JoinPayloads, t \in Times :
          /\ joins < MaxJoins
          /\ Join(c, name, t)
          /\ NoPage
    \/ \E c \in Sockets, data \in SendPayloads, t \in Times, fatal \in BOOLEAN :
          /\ Len(pushed) < MaxSends
          /\ SendMessage(c, data, t, fatal)
          /\ NoPage
    \/ \E i \in 1..Len(pendingSaves), ok \in BOOLEAN : SaveDone(i, ok) /\ NoPage
    \/ \E c \in Sockets, data \in TypingPayloads : Typing(c, data) /\ NoPage
    \/ \E c \in Sockets, t \in Times : Disconnect(c, t) /\ NoPage
    \/ \E queryOk \in BOOLEAN : GetMessages(queryOk) /\ NoPage
    \/ GetUsers /\ NoPage

Spec == Init /\ [][Next]_vars

-----------------------------------------------------------------------------
(* Long runs of one client: the buffer and the store grow past their limits *)

\* Consecutive sends are 1 ms apart, but for the first TieWindow of them
LongTimes == {t \in now..(now + 1) : t = now => Len(pushed) < TieWindow}

LongNext ==
    \/ \E ok \in BOOLEAN : pushed = <<>> /\ connectDB(ok) /\ NoPage
    \/ Connection(1) /\ NoPage
    \/ \E t \in LongTimes : Falsy(username[1]) /\ Join(1, Str(<<"b">>), t) /\ NoPage
    \/ \E t \in LongTimes :
          /\ Len(pushed) < MaxSendsLong
          /\ pendingSaves = <<>>
          /\ SendMessage(1, MsgObj(Str(<<" ", "h", "i", " ">>)), t, FALSE)
          /\ NoPage
    \/ SaveDone(1, TRUE) /\ NoPage
    \/ \E queryOk \in BOOLEAN : GetMessages(queryOk) /\ NoPage

LongSpec == Init /\ [][LongNext]_vars

-----------------------------------------------------------------------------
(* Presence: the store is never connected, every client is the page, and the *)
(* sockets join, type, send once and leave                                    *)

PresencePayloads == { Str(<<" ", "a", " ">>), Str(<<"b">>) }

PresenceNext ==
    \/ \E c \in Sockets : Connection(c) /\ Pages
    \/ \E c \in Sockets, name \in PresencePayloads, t \in Times :
          /\ joins < MaxJoinsPresence
          /\ Join(c, name, t)
          /\ Pages
    \/ \E c \in Sockets, t \in Times :
          /\ Len(pushed) < MaxSendsPresence
          /\ SendMessage(c, MsgObj(Str(<<" ", "h", "i", " ">>)), t, FALSE)
          /\ Pages
    \/ \E c \in Sockets, data \in TypingPayloads : Typing(c, data) /\ Pages
    \/ \E c \in Sockets, t \in Times : Disconnect(c, t) /\ Pages
    \/ GetUsers /\ Pages

PresenceSpec == Init /\ [][PresenceNext]_vars

-----------------------------------------------------------------------------
(* Session states, and what the properties below read off a step *)

\* Unidentified: connected, socket.username not set
Unidentified(c) == conn[c] = "connected" /\ Falsy(username[c])

\* Active: connected and joined
Active(c) == conn[c] = "connected" /\ ~Falsy(username[c])

\* A name that is non-empty after trimming and at most MaxNameLen characters long
ValidName(v) ==
    /\ v.type = "string"
    /\ Trim(v.str) # <<>>
    /\ Len(Trim(v.str)) <= MaxNameLen

\* The number of times x occurs in the sequence s
Count(s, x) == Cardinality({i \in 1..Len(s) : s[i] = x})

\* The events ev among the sequence of events es
EventsOf(es, ev) == SelectSeq(es, LAMBDA e : e.ev = ev)

\* The step runs the handler op of socket c
Runs(op, c) == lastOp'.op = op /\ lastOp'.socket = c

\* Nothing the server keeps changes in the step
ServerStateUnchanged ==
    UNCHANGED <<isDbConnected, dbMessages, memoryMessages, activeUsers, conn, username,
                pendingSaves, crashed, pushed>>

-----------------------------------------------------------------------------
(* C1: for every name N that is non-empty after trimming and at most 20        *)
(* characters long, a join(N) from an Unidentified connection makes the        *)
(* connection Active under the identity trim(N), and the users-update that     *)
(* this join emits reaches the joining connection and lists trim(N) exactly    *)
(* once.                                                                       *)
C1_JoinActivates ==
    [][\A c \in Sockets :
         (Runs("join", c) /\ Unidentified(c) /\ ValidName(lastOp'.arg)) =>
            LET nm == Trim(lastOp'.arg.str)
                updates == EventsOf(emitted', "users-update")
            IN  /\ Active(c)'
                /\ username'[c] = Str(nm)
                /\ Len(updates) = 1
                /\ c \in updates[1].to
                /\ Count(updates[1].payload, nm) = 1]_vars

\* A second connection has joined, untrimmed, under the name the first one holds
C1_Witness ==
    /\ lastOp.op = "join"
    /\ lastOp.arg = Str(<<" ", "a", " ">>)
    /\ joins = 2
    /\ \A c \in Sockets : Active(c) /\ username[c] = Str(<<"a">>)
    /\ Len(emitted) = 2
    /\ emitted[2].ev = "users-update"
    /\ emitted[2].payload = << <<"a">> >>

(* C2: an accepted join emits exactly two events, in this order: user-joined   *)
(* to every live connection but the joining one, then users-update to every    *)
(* live connection, the joining one among them; the handler runs to its end    *)
(* in one step, so no event of another connection comes between the two.       *)
C2_JoinEventOrder ==
    [][\A c \in Sockets :
         (Runs("join", c) /\ joins' = joins + 1) =>
            /\ Len(emitted') = 2
            /\ emitted'[1].ev = "user-joined"
            /\ emitted'[1].to = Live(conn) \ {c}
            /\ emitted'[1].payload.username = username'[c].str
            /\ emitted'[2].ev = "users-update"
            /\ emitted'[2].to = Live(conn)
            /\ c \in emitted'[2].to]_vars

\* A join accepted while another connection is live: that one gets both events
C2_Witness ==
    /\ lastOp.op = "join"
    /\ Len(emitted) = 2
    /\ emitted[1].ev = "user-joined"
    /\ emitted[1].to = Sockets \ {lastOp.socket}
    /\ emitted[2].ev = "users-update"
    /\ emitted[2].to = Sockets

\* The join payload is missing, or a string that is empty after trimming
BlankName(v) == v.type = "undefined" \/ (v.type = "string" /\ Trim(v.str) = <<>>)

(* C3: a join whose name is missing or empty after trimming emits one error    *)
(* event, to the joining connection only, and nothing else; the connection     *)
(* keeps its session state (Unidentified stays Unidentified), and the          *)
(* presence map, the message buffer and the store are unchanged.               *)
C3_BlankJoinRejected ==
    [][\A c \in Sockets :
         (Runs("join", c) /\ BlankName(lastOp'.arg)) =>
            /\ Len(emitted') = 1
            /\ emitted'[1].ev = "error"
            /\ emitted'[1].to = {c}
            /\ ServerStateUnchanged
            /\ joins' = joins
            /\ Unidentified(c) => Unidentified(c)']_vars

\* An Unidentified connection has sent join with a whitespace-only name while
\* another connection was live
C3_Witness ==
    /\ lastOp.op = "join"
    /\ lastOp.arg = Str(<<" ", " ">>)
    /\ Unidentified(lastOp.socket)
    /\ Live(conn) = Sockets
    /\ Len(emitted) = 1
    /\ emitted[1].ev = "error"

\* A name longer than MaxNameLen characters after trimming
OverlongName(v) == v.type = "string" /\ Len(Trim(v.str)) > MaxNameLen

(* C4: a join whose trimmed name is longer than 20 characters is rejected,     *)
(* not truncated: the connection stays Unidentified, no presence entry is      *)
(* created, for the full name or for a prefix of it, and no users-update is    *)
(* emitted.                                                                    *)
C4_OverlongJoinRejected ==
    [][\A c \in Sockets :
         (Runs("join", c) /\ Unidentified(c) /\ OverlongName(lastOp'.arg)) =>
            /\ Unidentified(c)'
            /\ activeUsers' = activeUsers
            /\ EventsOf(emitted', "users-update") = <<>>]_vars

(* C5: a send-message from a connection that has not joined, whatever its      *)
(* payload, emits one error event, to that connection only; the buffer, the    *)
(* store and the presence map are unchanged, no new-message is broadcast or    *)
(* left pending, and the connection stays connected and Unidentified.          *)
C5_SendBeforeJoinRejected ==
    [][\A c \in Sockets :
         (Runs("send-message", c) /\ Unidentified(c)) =>
            /\ Len(emitted') = 1
            /\ emitted'[1].ev = "error"
            /\ emitted'[1].to = {c}
            /\ emitted'[1].payload = "You must join first"
            /\ ServerStateUnchanged
            /\ delivered' = delivered
            /\ Unidentified(c)']_vars

\* An Unidentified connection has sent a well-formed message while another
\* connection was live and joined
C5_Witness ==
    /\ lastOp.op = "send-message"
    /\ lastOp.arg = MsgObj(Str(<<" ", "h", "i", " ">>))
    /\ Unidentified(lastOp.socket)
    /\ \E d \in Sockets : Active(d)
    /\ Len(emitted) = 1
    /\ emitted[1].ev = "error"

\* The payload of a send-message whose body is a string, empty after trimming
BlankBody(v) ==
    /\ v.type = "object"
    /\ v.message.type = "string"
    /\ Trim(v.message.str) = <<>>

(* C6: a send-message from an Active connection whose body is empty or         *)
(* whitespace-only emits nothing, neither new-message nor error, pushes        *)
(* nothing to the buffer, leaves no append pending, and the connection         *)
(* stays Active.                                                               *)
C6_BlankSendDropped ==
    [][\A c \in Sockets :
         (Runs("send-message", c) /\ Active(c) /\ BlankBody(lastOp'.arg)) =>
            /\ emitted' = <<>>
            /\ ServerStateUnchanged
            /\ delivered' = delivered
            /\ Active(c)']_vars

\* An Active connection has sent a whitespace-only body, the store in use
C6_Witness ==
    /\ lastOp.op = "send-message"
    /\ lastOp.arg = MsgObj(Str(<<" ", "\t">>))
    /\ Active(lastOp.socket)
    /\ isDbConnected
    /\ emitted = <<>>

\* The payload of a send-message whose body is a string, non-empty after trimming
ValidBody(v) ==
    /\ v.type = "object"
    /\ v.message.type = "string"
    /\ Trim(v.message.str) # <<>>

\* The event es is one new-message with payload m, sent to the sockets to
OneNewMessage(es, to, m) ==
    /\ Len(es) = 1
    /\ es[1].ev = "new-message"
    /\ es[1].to = to
    /\ es[1].payload = m

(* C7: a send-message with a non-empty trimmed body from an Active connection  *)
(* yields one new-message whose author is the sender's identity and whose      *)
(* body is the trimmed text, sent to every live connection, the sender         *)
(* included: in the step of the send when the store is not in use; else the    *)
(* send is left pending on the append, and the step that settles the append    *)
(* emits that one new-message to every connection live then.  No message is    *)
(* broadcast twice.                                                            *)
C7_SendBroadcast ==
    [][/\ \A c \in Sockets :
            (Runs("send-message", c) /\ Active(c) /\ ValidBody(lastOp'.arg)) =>
               LET m == [username |-> username[c].str,
                         message |-> Trim(lastOp'.arg.message.str),
                         timestamp |-> now']
               IN  /\ pushed' = Append(pushed, m)
                   /\ IF isDbConnected
                      THEN /\ emitted' = <<>>
                           /\ Len(pendingSaves') = Len(pendingSaves) + 1
                           /\ pendingSaves'[Len(pendingSaves')].msg = m
                           /\ pendingSaves'[Len(pendingSaves')].seq = Len(pushed')
                      ELSE /\ OneNewMessage(emitted', Live(conn), m)
                           /\ c \in emitted'[1].to
                           /\ delivered' = Append(delivered, Len(pushed'))
       /\ lastOp'.op = "save-done" =>
            \E i \in 1..Len(pendingSaves) :
               /\ pendingSaves' = RemoveAt(pendingSaves, i)
               /\ OneNewMessage(emitted', Live(conn), pendingSaves[i].msg)
               /\ delivered' = Append(delivered, pendingSaves[i].seq)
       /\ \A k \in 1..Len(pushed') : Count(delivered', k) <= 1
       /\ \A i \in 1..Len(pendingSaves') :
            Count(delivered', pendingSaves'[i].seq) = 0]_vars

\* Connection 1 is 'a', connection 2 is 'b'; 1 has sent ' hi ' and both
\* have got new-message { a, hi } once the append has settled
C7_Witness ==
    /\ username[1] = Str(<<"a">>) /\ username[2] = Str(<<"b">>)
    /\ lastOp.op = "save-done"
    /\ lastOp.socket = 1
    /\ Len(emitted) = 1
    /\ emitted[1].ev = "new-message"
    /\ emitted[1].to = {1, 2}
    /\ emitted[1].payload.username = <<"a">>
    /\ emitted[1].payload.message = <<"h", "i">>

-----------------------------------------------------------------------------
(* Every save() settles: the driver resolves or rejects each operation (a lost *)
(* connection ends in a selection timeout), and the event loop then resumes    *)
(* the handler that awaits it.                                                 *)

\* The append of the k-th pushed message settles, either way
SaveSettles(k) ==
    \E i \in 1..Len(pendingSaves), ok \in BOOLEAN :
        pendingSaves[i].seq = k /\ SaveDone(i, ok) /\ NoPage

FairSpec == Init /\ [][Next]_vars /\ \A k \in 1..MaxSends : WF_vars(SaveSettles(k))

\* The k-th pushed message awaits its append
AwaitsSave(k) == \E i \in 1..Len(pendingSaves) : pendingSaves[i].seq = k

\* The k-th pushed message has been broadcast
Broadcast(k) == \E j \in 1..Len(delivered) : delivered[j] = k

(* C8: a failed append neither blocks nor suppresses delivery.  The step that  *)
(* settles an append, resolved or rejected, broadcasts the new-message of      *)
(* that send and emits no error; and every send that awaits its append is      *)
(* broadcast in the end, as long as the server process lives.                  *)
C8_AppendNeverBlocks ==
    /\ [][lastOp'.op = "save-done" =>
            \E i \in 1..Len(pendingSaves) :
               /\ pendingSaves' = RemoveAt(pendingSaves, i)
               /\ OneNewMessage(emitted', Live(conn), pendingSaves[i].msg)
               /\ delivered' = Append(delivered, pendingSaves[i].seq)
               /\ crashed' = crashed]_vars
    /\ \A k \in 1..MaxSends : AwaitsSave(k) ~> (Broadcast(k) \/ crashed)

\* An append has been rejected, and its message has been broadcast all the same
C8_Witness ==
    /\ lastOp.op = "save-done"
    /\ isDbConnected
    /\ dbMessages = <<>>
    /\ pendingSaves = <<>>
    /\ delivered = <<1>>
    /\ Len(emitted) = 1
    /\ emitted[1].ev = "new-message"
    /\ emitted[1].payload = pushed[1]

-----------------------------------------------------------------------------
Min(a, b) == IF a <= b THEN a ELSE b

(* C9: the buffer never holds more than 100 messages.  Every validated send,   *)
(* with the store in use or not, is pushed to it, and after n validated sends  *)
(* it holds the last min(n, 100) of them in the order of the sends: after 150  *)
(* sends its last 50 entries are the sends 101 to 150.                         *)
C9_BufferBounded ==
    /\ [](LET n == Len(pushed)
              kept == Min(n, BufferCap)
          IN  /\ Len(memoryMessages) <= BufferCap
              /\ Len(memoryMessages) = kept
              /\ \A i \in 1..kept : memoryMessages[i] = pushed[n - kept + i])
    /\ [][\A c \in Sockets :
            (Runs("send-message", c) /\ Active(c) /\ ValidBody(lastOp'.arg)) =>
               /\ Len(pushed') = Len(pushed) + 1
               /\ pushed'[Len(pushed')].message = Trim(lastOp'.arg.message.str)
               /\ memoryMessages'[Len(memoryMessages')] = pushed'[Len(pushed')]]_vars

\* 150 sends have been made with the store in use: the buffer holds the sends
\* 51 to 150, all of them distinct from the first fifty
C9_Witness ==
    /\ isDbConnected
    /\ Len(pushed) = 150
    /\ Len(memoryMessages) = 100
    /\ memoryMessages[51] = pushed[101]
    /\ memoryMessages[100] = pushed[150]
    /\ pushed[150] # pushed[50]

\* What the last query read: the store, or the buffer
QuerySource ==
    IF response.source = "database" THEN dbMessages ELSE memoryMessages

(* C10: in every storage mode the recent-messages query answers with at most   *)
(* 50 messages, in ascending order of time, and they are the most recent ones  *)
(* of what it read: min(50, size) of them, every message later than the        *)
(* earliest one returned is among them, and none is made up.  It reads the     *)
(* store when the store is in use and answers, else the buffer.                *)
C10_RecentMessages ==
    response.kind = "messages" =>
        LET r == response.messages
            src == QuerySource
        IN  /\ Len(r) <= QueryLimit
            /\ Len(r) = Min(QueryLimit, Len(src))
            /\ \A i \in 1..(Len(r) - 1) : r[i].timestamp <= r[i + 1].timestamp
            /\ \A i \in 1..Len(r) : Count(r, r[i]) <= Count(src, r[i])
            /\ \A j \in 1..Len(src) :
                  (r # <<>> /\ src[j].timestamp > r[1].timestamp) =>
                      Count(r, src[j]) = Count(src, src[j])
            /\ response.source \in
                  IF isDbConnected THEN {"database", "memory-fallback"} ELSE {"memory"}

\* The store holds 150 messages and the query has answered with the last 50
C10_Witness ==
    /\ response.kind = "messages"
    /\ response.source = "database"
    /\ Len(dbMessages) = 150
    /\ Len(response.messages) = 50
    /\ response.messages[1] = dbMessages[101]
    /\ response.messages[1].timestamp < response.messages[50].timestamp

-----------------------------------------------------------------------------
(* C11: the storage mode is fixed by the one connect attempt of the start:     *)
(* once that attempt has settled no step (no send, no query, no failed append, *)
(* no failed query) changes isDbConnected, only connectDB ever assigns it, and *)
(* when the attempt has failed no response to the query of recent messages     *)
(* has the source "database".                                                  *)
C11_StorageModeFixed ==
    /\ [][/\ dbPhase = "done" => isDbConnected' = isDbConnected
          /\ isDbConnected' # isDbConnected => lastOp'.op = "connectDB"]_vars
    /\ []((dbPhase = "done" /\ ~isDbConnected /\ response.kind = "messages")
            => response.source # "database")

\* The connect has failed, a message was sent and the query answers from memory
C11_Witness ==
    /\ dbPhase = "done"
    /\ ~isDbConnected
    /\ lastOp.op = "get-messages"
    /\ response.kind = "messages"
    /\ response.source = "memory"
    /\ Len(response.messages) = 1

-----------------------------------------------------------------------------
(* C12: when an Active connection disconnects, its identity is no longer in    *)
(* activeUsers, and every connection that remains live is sent exactly one     *)
(* user-left naming that identity, followed by exactly one users-update whose  *)
(* roster, the keys of activeUsers after the removal, does not contain it; the *)
(* leaving socket is sent neither.                                             *)
C12_DisconnectAnnounced ==
    [][\A c \in Sockets :
         (Runs("disconnect", c) /\ Active(c)) =>
            LET nm == username[c].str
                rest == Live(conn) \ {c}
            IN  /\ ~MapHas(activeUsers', nm)
                /\ Len(emitted') = 2
                /\ emitted'[1].ev = "user-left"
                /\ emitted'[1].to = rest
                /\ emitted'[1].payload.username = nm
                /\ emitted'[2].ev = "users-update"
                /\ emitted'[2].to = rest
                /\ emitted'[2].payload = MapKeys(activeUsers')
                /\ Count(emitted'[2].payload, nm) = 0]_vars

\* An Active socket has left while the other, Active too, was there to be told
C12_Witness ==
    /\ lastOp.op = "disconnect"
    /\ Len(emitted) = 2
    /\ emitted[1].ev = "user-left"
    /\ emitted[1].to # {}
    /\ emitted[2].payload # <<>>

-----------------------------------------------------------------------------
(* C13: when a connection that never joined disconnects, no event is emitted   *)
(* to anyone and activeUsers and memoryMessages are as they were.              *)
C13_SilentDisconnect ==
    [][\A c \in Sockets :
         (Runs("disconnect", c) /\ Unidentified(c)) =>
            /\ emitted' = <<>>
            /\ activeUsers' = activeUsers
            /\ memoryMessages' = memoryMessages
            /\ conn'[c] = "disconnected"]_vars

\* A socket that never joined has left while the other was Active and the
\* buffer held a message
C13_Witness ==
    /\ lastOp.op = "disconnect"
    /\ Falsy(username[lastOp.socket])
    /\ \E d \in Sockets : Active(d)
    /\ activeUsers # <<>>
    /\ memoryMessages # <<>>

-----------------------------------------------------------------------------
\* A typing payload as the interface has it: an object with a boolean isTyping
TypingFlag(v) == v.type = "object" /\ v.isTyping \in BOOLEAN

(* C14: a typing { isTyping } from an Active connection sends one user-typing  *)
(* { username of the sender, isTyping } to every other live connection and     *)
(* nothing to the sender; a typing from an Unidentified connection, whatever   *)
(* its payload, emits nothing, no error either; in both cases activeUsers,     *)
(* memoryMessages and the state of every session are unchanged.                *)
C14_TypingRelayed ==
    [][\A c \in Sockets :
         Runs("typing", c) =>
            /\ (Active(c) /\ TypingFlag(lastOp'.arg)) =>
                  /\ emitted' = << Event("user-typing", Live(conn) \ {c},
                                         [username |-> username[c].str,
                                          isTyping |-> lastOp'.arg.isTyping]) >>
                  /\ ServerStateUnchanged
            /\ Unidentified(c) =>
                  /\ emitted' = <<>>
                  /\ ServerStateUnchanged]_vars

\* An Active socket has typed and the other live socket was sent the event
C14_Witness ==
    /\ lastOp.op = "typing"
    /\ Active(lastOp.socket)
    /\ TypingFlag(lastOp.arg)
    /\ Len(emitted) = 1
    /\ emitted[1].ev = "user-typing"
    /\ emitted[1].to = Sockets \ {lastOp.socket}
    /\ memoryMessages # <<>>

-----------------------------------------------------------------------------
(* C15: a page does not keep a user who has left in its typing set.  The page  *)
(* has no timer and no step of its own that touches typingUsers: what it holds *)
(* once it has handled the events of a disconnect, it holds until another      *)
(* event arrives.  So: when socket a has disconnected with a name that no      *)
(* live socket carries, the page behind a live socket b does not have that     *)
(* name in typingUsers.                                                        *)
C15_TypingSetNotStuck ==
    \A a \in Sockets, b \in Sockets :
       ( /\ conn[a] = "disconnected"
         /\ ~Falsy(username[a])
         /\ conn[b] = "connected"
         /\ \A d \in Sockets : Active(d) => username[d] # username[a] )
       => username[a].str \notin typingUsers[b]

-----------------------------------------------------------------------------
(* C16: no join, send-message or typing, whatever its payload, ends the        *)
(* process on an uncaught exception.                                           *)
C16_NoHandlerThrows ==
    [][\A c \in Sockets :
         (Runs("join", c) \/ Runs("send-message", c) \/ Runs("typing", c))
            => ~crashed']_vars

-----------------------------------------------------------------------------
\* The sequence s without the element x
Without(s, x) == SelectSeq(s, LAMBDA y : y # x)

-----------------------------------------------------------------------------
(* C18: the new-message broadcasts come in the order in which their messages   *)
(* were pushed to memoryMessages: of two broadcasts, the earlier one carries   *)
(* the message that was pushed earlier.                                        *)
C18_BroadcastInPushOrder ==
    \A i, j \in 1..Len(delivered) : i < j => delivered[i] < delivered[j]

-----------------------------------------------------------------------------
-----------------------------------------------------------------------------
\* The session state of socket c, under the values cn and un of conn and username
Session(cn, un, c) ==
    IF cn[c] = "disconnected" THEN "Closed"
    ELSE IF cn[c] = "idle" THEN "None"
    ELSE IF Falsy(un[c]) THEN "Unidentified"
    ELSE "Active"

(* C20: in every state at most one entry of activeUsers refers to any one      *)
(* socket, and a session only moves forward along Unidentified, Active,        *)
(* Closed: it never returns to an earlier state.                               *)
C20_OneEntryPerConnection ==
    /\ [](\A c \in Sockets :
            Cardinality({i \in 1..Len(activeUsers) : activeUsers[i].id = c}) <= 1)
    /\ [][\A c \in Sockets :
            LET old == Session(conn, username, c)
                new == Session(conn', username', c)
            IN  \/ new = old
                \/ old = "None" /\ new = "Unidentified"
                \/ old = "Unidentified" /\ new \in {"Active", "Closed"}
                \/ old = "Active" /\ new = "Closed"]_vars

-----------------------------------------------------------------------------
\* The places of the name k in the registry m
EntriesOf(m, k) == {i \in 1..Len(m) : m[i].username = k}

(* C21: a join under a name that activeUsers already holds is not rejected:    *)
(* the socket gets the name and no error is emitted; afterwards activeUsers    *)
(* holds exactly one entry of that name, with the id of the joining socket and *)
(* the time of this join, which is not earlier than the time it replaces; the  *)
(* entries of the other names are where and what they were.                    *)
C21_LastWriterWins ==
    [][\A c \in Sockets :
         ( /\ Runs("join", c)
           /\ lastOp'.arg.type = "string"
           /\ EntriesOf(activeUsers, Trim(lastOp'.arg.str)) # {} ) =>
            LET nm == Trim(lastOp'.arg.str)
            IN  /\ username'[c] = Str(nm)
                /\ EventsOf(emitted', "error") = <<>>
                /\ Len(activeUsers') = Len(activeUsers)
                /\ Cardinality(EntriesOf(activeUsers', nm)) = 1
                /\ \A i \in EntriesOf(activeUsers', nm) :
                      /\ activeUsers'[i].id = c
                      /\ activeUsers'[i].joinedAt = now'
                      /\ i \in EntriesOf(activeUsers, nm)
                      /\ activeUsers'[i].joinedAt >= activeUsers[i].joinedAt
                /\ \A i \in 1..Len(activeUsers) :
                      activeUsers[i].username # nm => activeUsers'[i] = activeUsers[i]]_vars

\* Socket 2 has joined, at a later time, under the name socket 1 holds, while
\* another name is registered too
C21_Witness ==
    /\ lastOp.op = "join"
    /\ \E c \in Sockets, d \in Sockets :
          /\ c # d
          /\ lastOp.socket = c
          /\ Active(c) /\ Active(d)
          /\ username[c] = username[d]
          /\ \E i \in EntriesOf(activeUsers, username[c].str) :
                activeUsers[i].id = c /\ activeUsers[i].joinedAt = 1
    /\ Len(activeUsers) = 2

-----------------------------------------------------------------------------
(* C22: in every state the names in activeUsers are the names of the sockets   *)
(* that are Active: every Active socket has its name in the registry, and      *)
(* every name in the registry is the name of an Active socket.                 *)
C22_RosterIsActiveSet ==
    {activeUsers[i].username : i \in 1..Len(activeUsers)}
       = {username[c].str : c \in {d \in Sockets : Active(d)}}

-----------------------------------------------------------------------------
\* The user-left of socket c has been broadcast: c was Active when it
\* disconnected (a closed socket never comes back)
LeftAnnounced(c) == conn[c] = "disconnected" /\ ~Falsy(username[c])

(* C23: no step broadcasts a new-message written by a socket whose user-left   *)
(* has already been broadcast.  The socket of a step that emits new-message is *)
(* the author: the sender itself, or the sender whose suspended handler        *)
(* resumes when its append settles.                                            *)
C23_NoMessageAfterLeft ==
    [][\A c \in Sockets :
         (lastOp'.socket = c /\ EventsOf(emitted', "new-message") # <<>>)
            => ~LeftAnnounced(c)]_vars

=============================================================================
